---- MODULE Spec2Model ----
\* Model of the cron-triggered "observe, then comment" run of
\* src/reddit_cron_session.py (main and its helpers) over a flat state file.
EXTENDS Integers, Sequences, FiniteSets, TLC

\* ---------------------------------------------------------------- bounds
MaxRuns == 2
MaxDate == 2

\* ------------------------------------------------------- program constants
TargetMin == 4
TargetMax == 8
MaxPostAttempts == 3
ApiRetries == 8
MinCandidates == 2
VerifyPolls == 4

Procs == {"r1", "r2"}
Dates == 1..MaxDate
Ids == {1, 2, 3, 4, 5}
Targets == TargetMin..TargetMax
\* the draws of random.randint(4, 8) that are explored: its two extremes
DrawnTargets == {TargetMin, TargetMax}

HTTP_OK == "200"
HTTP_FAIL == "500"
StatusCodes == {HTTP_OK, HTTP_FAIL}

\* ------------------------------------------------------------------ posts
\* A post lives in exactly one subreddit of the allow-set.
SubOf(i) == IF i % 2 = 1 THEN "Parenting" ELSE "daddit"
PostOf(i) == [subreddit |-> SubOf(i), id |-> i]
Posts == {PostOf(i) : i \in Ids}
NoPost == [subreddit |-> "?", id |-> 0]

\* Sequences over S without repetition, of length at most n.
RECURSIVE InjSeqs(_, _)
InjSeqs(S, n) ==
    IF n = 0 \/ S = {} THEN {<<>>}
    ELSE {<<>>} \cup UNION {{<<x>> \o t : t \in InjSeqs(S \ {x}, n - 1)} : x \in S}

Range(s) == {s[k] : k \in 1..Len(s)}
Perms(s) == {t \in InjSeqs(Range(s), Len(s)) : Len(t) = Len(s)}

\* What fetch_candidates can return when the searches find the posts of `found`:
\* validated posts, distinct ids, at most 6, in shuffled order.
AcquireCap == 6
AcquiredLists(found) == InjSeqs(found, AcquireCap)

\* --------------------------------------------------------- state document
EmptyMap == [d \in {} |-> [target |-> 0, done |-> 0]]
DefaultState ==
    [status |-> "PAUSED", dailyKind |-> "absent", daily |-> EmptyMap, sessions_log |-> <<>>]

\* load_json: the default when the file is absent or does not parse, else
\* whatever JSON value the file holds (not necessarily an object).
load_json(f, default) ==
    IF f.kind \in {"missing", "garbage"}
    THEN [kind |-> "object", doc |-> default]
    ELSE [kind |-> f.kind, doc |-> f.doc]

\* state.setdefault("daily", {}) then daily.setdefault(today, {target: t, done: 0})
Raises(loaded) == loaded.kind # "object" \/ loaded.doc.dailyKind = "list"

WithBucketAlone(doc, today, t) ==
    [doc EXCEPT !.dailyKind = "map",
                !.daily = [d \in {today} |-> [target |-> t, done |-> 0]]]
\* lines 321-322
WithBucket(doc, today, t) ==
    [doc EXCEPT !.dailyKind = "map",
                !.daily = [d \in (DOMAIN doc.daily) \cup {today} |->
                              IF d \in DOMAIN doc.daily THEN doc.daily[d]
                              ELSE [target |-> t, done |-> 0]]]

StateNotActive(doc) == doc.status # "active"
QuotaReachedStrict(day) == day.done > day.target
QuotaReached(day) == day.done >= day.target

commented_keys_none(doc) == {}
\* lines 366-372; the key string "subreddit:post_id" is kept as the pair, which it
\* determines since no subreddit name holds a colon
commented_keys(doc) ==
    {<<x.subreddit, x.post_id>> : x \in {y \in Range(doc.sessions_log) :
                                          y.subreddit # "" /\ y.post_id # 0}}

\* lines 375-379 (before the shuffle)
RECURSIVE FilterPool(_, _, _)
FilterPoolNoLedger(cands, observed, keys) ==
    IF cands = <<>> THEN <<>>
    ELSE LET p == Head(cands)
             rest == FilterPool(Tail(cands), observed, {})
         IN IF p.id # observed.id THEN <<p>> \o rest ELSE rest
FilterPool(cands, observed, keys) ==
    IF cands = <<>> THEN <<>>
    ELSE LET p == Head(cands)
             rest == FilterPool(Tail(cands), observed, keys)
         IN IF p.id # observed.id /\ <<p.subreddit, p.id>> \notin keys
            THEN <<p>> \o rest ELSE rest

Min(a, b) == IF a < b THEN a ELSE b
unshuffled_pool_of_all(cands, keys) == FilterPool(cands, NoPost, keys)
\* lines 353 and 375-379: observed is candidates[0], the pool is drawn from the rest
unshuffled_pool(cands, keys) == FilterPool(Tail(cands), cands[1], keys)

max_post_attempts_all(pool) == Len(pool)
\* line 381
max_post_attempts(pool) == Min(MaxPostAttempts, Len(pool))

RecordedNoCount(doc, today, target, verified, attempts) ==
    [doc EXCEPT !.sessions_log = Append(@,
                    [subreddit |-> target.subreddit, post_id |-> target.id,
                     status |-> IF verified = "true" THEN "ok" ELSE "posted_unverified"])]
\* lines 456-468: the in-memory mutation that is then saved
Recorded(doc, today, target, verified, attempts) ==
    [doc EXCEPT !.daily[today].done = @ + 1,
                !.sessions_log = Append(@,
                    [subreddit |-> target.subreddit, post_id |-> target.id,
                     status |-> IF verified = "true" THEN "ok" ELSE "posted_unverified"])]

ObjectFile(doc) == [kind |-> "object", doc |-> doc]
\* path.write_text truncates the file before the new bytes are written
TruncatedFile == [kind |-> "garbage", doc |-> DefaultState]

\* ------------------------------------------------------------------ state
VARIABLES
    file,         \* content of the state file (STATE_PATH)
    date,         \* the calendar date, as datetime.now() reports it
    delivered,    \* per post id, how many submit calls were answered 200
    firstTarget,  \* per date, the first target a run computed for it (0: none yet)
    budget,       \* invocations still to come
    platform,     \* the posts the platform's search can return
    overlap,      \* whether cron starts an invocation while another is in progress
    api,          \* the API server: its shared client handle and the browsers it opened
    acq,          \* one call of fetch_candidates(): the search responses and its result
    proc          \* per invocation slot, the locals of main()

vars == <<file, date, delivered, firstTarget, budget, platform, overlap, api, acq, proc>>

Terminal == {"done", "crashed", "killed"}
\* the printed result: outcome tag, reason, and the attempt count the reason cites
NoResult == [status |-> "", reason |-> "", cited |-> 0]
NoSuccess == [set |-> FALSE, target |-> NoPost, verified |-> ""]

IdleProc ==
    [pc |-> "idle", dry_run |-> FALSE, today |-> 0, state |-> DefaultState,
     candidates |-> <<>>, pool |-> <<>>, idx |-> 0, attempts |-> <<>>,
     success |-> NoSuccess, polls |-> 0, retries |-> 0,
     guard_read |-> "",   \* what the live guard's read of the current target came to
     result |-> NoResult, calls |-> {},
     file0 |-> [kind |-> "missing", doc |-> DefaultState],   \* the file when main() began
     after_abort |-> FALSE]   \* an earlier invocation ended by an exception or a kill

\* ---------------------------------------------------- initial state files
InitBuckets ==
    {b \in [target : {TargetMin, TargetMax}, done : 0..TargetMax] :
        b.done \in {0, b.target - 1, b.target}}
InitDailies ==
    {[dailyKind |-> "absent", daily |-> EmptyMap], [dailyKind |-> "list", daily |-> EmptyMap],
     [dailyKind |-> "map", daily |-> EmptyMap]}
    \cup {[dailyKind |-> "map", daily |-> [d \in {1} |-> b]] : b \in InitBuckets}
\* Ledgers left by earlier runs: empty, one record, one record that lacks its
\* post_id (0 stands for None).
InitLogs ==
    {<<>>,
     <<[subreddit |-> SubOf(1), post_id |-> 1, status |-> "ok"]>>,
     <<[subreddit |-> SubOf(1), post_id |-> 0, status |-> "ok"]>>}
InitDocs ==
    {[status |-> s, dailyKind |-> dl.dailyKind, daily |-> dl.daily, sessions_log |-> lg] :
        s \in {"active", "PAUSED"}, dl \in InitDailies, lg \in InitLogs}
InitFiles ==
    {[kind |-> k, doc |-> DefaultState] : k \in {"missing", "garbage", "null", "list"}}
    \cup {ObjectFile(doc) : doc \in InitDocs}

\* The API server before any login request: no client handle (routes/reddit.py
\* line 16), nothing opened.
NoProxy == "none"
IdleApi ==
    [pc |-> "idle", logins |-> 0, client |-> FALSE,
     c_browser |-> NoProxy, c_context |-> NoProxy, c_page |-> FALSE,
     override |-> FALSE, lines |-> <<>>, cap |-> 0, cands |-> <<>>, i |-> 0,
     probed |-> <<>>, selected |-> NoProxy,
     open_b |-> {}, open_c |-> {}, error |-> ""]

\* no call of fetch_candidates() under study
IdleAcq == [pc |-> "idle", responses |-> <<>>, out |-> <<>>, searches |-> 0, details |-> 0]

StartAt(files, day, n, found) ==
    /\ file \in files
    /\ date = day
    /\ delivered = [i \in Ids |-> 0]
    /\ firstTarget = [d \in Dates |-> 0]
    /\ budget = n
    /\ platform = found
    /\ overlap = FALSE
    /\ api = IdleApi
    /\ acq = IdleAcq
    /\ proc = [r \in Procs |-> IdleProc]
Start0(n, found) == StartAt(InitFiles, 1, n, found)

\* several invocations, one after another, over a platform of two posts
Init == Start0(MaxRuns, {PostOf(1), PostOf(2)})
\* one invocation over a platform of three posts
InitRun == Start0(1, {PostOf(1), PostOf(2), PostOf(3)})
\* one invocation on an active state document without daily buckets whose
\* ledger names one post, over a platform of five posts: the pool can hold more
\* targets than are attempted
LoopFiles ==
    {f \in InitFiles : /\ f.kind = "object" /\ f.doc.status = "active"
                       /\ f.doc.dailyKind = "absent"
                       /\ commented_keys(f.doc) # {}}
InitLoop == StartAt(LoopFiles, MaxDate, 1, Posts)
\* several invocations, one after another, on a state document with an empty
\* daily map and an empty ledger
EmptyFiles ==
    {f \in InitFiles : /\ f.kind = "object"
                       /\ f.doc.dailyKind = "map" /\ f.doc.daily = EmptyMap
                       /\ f.doc.sessions_log = <<>>}
InitEmpty == StartAt(EmptyFiles, 1, MaxRuns, {PostOf(1), PostOf(2)})
\* two invocations that may overlap, on an active state document whose bucket for
\* the first date is one short of its target or at it, over a platform of two posts
OverlapFiles ==
    {f \in InitFiles : /\ f.kind = "object" /\ f.doc.status = "active"
                       /\ f.doc.dailyKind = "map" /\ f.doc.daily # EmptyMap
                       /\ f.doc.daily[1].done > 0
                       /\ f.doc.daily[1].target = TargetMin
                       /\ f.doc.sessions_log = <<>>}
InitOverlap ==
    /\ file \in OverlapFiles
    /\ date = 1
    /\ delivered = [i \in Ids |-> 0]
    /\ firstTarget = [d \in Dates |-> 0]
    /\ budget = Cardinality(Procs)
    /\ platform = {PostOf(1), PostOf(2)}
    /\ overlap = TRUE
    /\ api = IdleApi
    /\ acq = IdleAcq
    /\ proc = [r \in Procs |-> IdleProc]

\* ---------------------------------------------------------------- helpers
Running(r) == proc[r].pc \notin Terminal \cup {"idle"}
Set(r, rec) == proc' = [proc EXCEPT ![r] = rec]
\* a new process: the locals of the invocations that ended before it are gone
Fresh(r, rec) == proc' = [q \in Procs |-> IF q = r THEN rec
                                          ELSE IF Running(q) THEN proc[q] ELSE IdleProc]
Finish(p, status, reason) ==
    [p EXCEPT !.pc = "done", !.result = [status |-> status, reason |-> reason, cited |-> 0]]
\* an exception nobody catches: the traceback is all the process leaves behind
Crash(p) ==
    [IdleProc EXCEPT !.pc = "crashed", !.dry_run = p.dry_run, !.today = p.today,
                     !.file0 = p.file0, !.calls = p.calls, !.after_abort = p.after_abort,
                     !.result = [status |-> "exception", reason |-> "", cited |-> 0]]

Aborted == \E q \in Procs : proc[q].after_abort \/ proc[q].pc \in {"crashed", "killed"}

GateSkipsStatus(dry, doc, day) ==
    IF dry THEN "pass"
    ELSE IF QuotaReached(day) THEN "quota_reached"
    ELSE "pass"
GateSkipsQuota(dry, doc, day) ==
    IF dry THEN "pass"
    ELSE IF StateNotActive(doc) THEN "state_not_active"
    ELSE "pass"
\* lines 324-333: the two gates, bypassed by --dry-run
Gate(dry, doc, day) ==
    IF dry THEN "pass"
    ELSE IF StateNotActive(doc) THEN "state_not_active"
    ELSE IF QuotaReached(day) THEN "quota_reached"
    ELSE "pass"

\* lines 318-337: load, bucket, gates, jitter sleep
Begin(r, dry, today) ==
    LET loaded == load_json(file, DefaultState)
        base == [IdleProc EXCEPT !.dry_run = dry, !.today = today, !.file0 = file,
                                 !.after_abort = Aborted]
    IN  IF Raises(loaded)
        THEN /\ Fresh(r, Crash(base))
             /\ UNCHANGED firstTarget
        ELSE \E t \in DrawnTargets :
             LET doc == IF loaded.doc.dailyKind = "map" /\ today \in DOMAIN loaded.doc.daily
                        THEN loaded.doc
                        ELSE WithBucket(loaded.doc, today, t)
                 day == doc.daily[today]
                 p == [base EXCEPT !.state = doc]
                 g == Gate(dry, doc, day)
             IN  /\ firstTarget' = IF firstTarget[today] = 0
                                   THEN [firstTarget EXCEPT ![today] = day.target]
                                   ELSE firstTarget
                 /\ IF g = "pass"
                    THEN Fresh(r, [p EXCEPT !.pc = "api", !.calls = {"sleep"}])
                    ELSE Fresh(r, Finish(p, "skipped", g))

\* A cron invocation; the calendar may have advanced since the invocation before
\* it. It takes the first slot when no invocation is in progress, and the second
\* slot when cron lets it start while the first is in progress: nothing in main()
\* looks for another process.
Start(r, dry, today) ==
    /\ budget > 0
    /\ ~Running(r)
    /\ r = "r1" \/ (overlap /\ Running("r1"))
    /\ today >= date
    /\ budget' = budget - 1
    /\ date' = today
    /\ Begin(r, dry, today)
    /\ UNCHANGED <<file, delivered, platform, overlap, api, acq>>

\* line 339 and lines 38-53: the first health check; when it fails (a status
\* other than 200, or an exception, which is caught) the API is started
EnsureApiUp(r) ==
    /\ proc[r].pc = "api"
    /\ \E up \in BOOLEAN :
         LET p == [proc[r] EXCEPT !.calls = @ \cup {"api"}]
         IN  IF up THEN Set(r, [p EXCEPT !.pc = "login"])
             ELSE Set(r, [p EXCEPT !.pc = "api_wait", !.retries = 0])
    /\ UNCHANGED <<file, date, delivered, firstTarget, budget, platform, overlap, api, acq>>

api_gives_up_late(n) == n >= ApiRetries + 1
\* line 55: for _ in range(8)
api_gives_up(n) == n >= ApiRetries

\* lines 55-63 and 339-341: one pass of the retry loop: sleep, health check;
\* ensure_api_up returns False after the last pass and main ends with api_down
RetryApi(r) ==
    /\ proc[r].pc = "api_wait"
    /\ \E up \in BOOLEAN :
         LET n == proc[r].retries + 1
             p == [proc[r] EXCEPT !.retries = n]
         IN  IF up THEN Set(r, [p EXCEPT !.pc = "login", !.retries = 0])
             ELSE IF api_gives_up(n) THEN Set(r, Finish(p, "error", "api_down"))
             ELSE Set(r, p)
    /\ UNCHANGED <<file, date, delivered, firstTarget, budget, platform, overlap, api, acq>>

\* lines 343-346 and 93-105; requests.post may raise past login()
Login(r) ==
    /\ proc[r].pc = "login"
    /\ \E out \in {"ok", "auth_login_500", "auth_status_false", "raise"} :
         LET p == [proc[r] EXCEPT !.calls = @ \cup {"login"}]
         IN  IF out = "ok" THEN Set(r, [p EXCEPT !.pc = "fetch"])
             ELSE IF out = "raise" THEN Set(r, Crash(p))
             ELSE Set(r, Finish(p, "error", out))
    /\ UNCHANGED <<file, date, delivered, firstTarget, budget, platform, overlap, api, acq>>

enough_posts_one(c) == Len(c) >= 1
\* line 349
enough_posts(c) == Len(c) >= MinCandidates

\* lines 348-351 and 144-199; the search request may raise past fetch_candidates()
Fetch(r) ==
    /\ proc[r].pc = "fetch"
    /\ LET p == [proc[r] EXCEPT !.calls = @ \cup {"search"}]
       IN  \/ Set(r, Crash(p))
           \/ \E c \in AcquiredLists(platform) :
                IF enough_posts(c)
                THEN Set(r, [p EXCEPT !.pc = "observe", !.candidates = c])
                ELSE Set(r, Finish([p EXCEPT !.candidates = c], "error", "not_enough_posts"))
    /\ UNCHANGED <<file, date, delivered, firstTarget, budget, platform, overlap, api, acq>>

\* lines 353-385: observe read (failures swallowed), dwell, ledger filter, shuffle
ObserveAndSelect(r) ==
    /\ proc[r].pc = "observe"
    /\ LET filtered == unshuffled_pool(proc[r].candidates, commented_keys(proc[r].state))
           p == [proc[r] EXCEPT !.calls = @ \cup {"read", "sleep"}]
       IN  IF max_post_attempts(filtered) = 0
           THEN Set(r, Finish(p, "skipped", "no_new_posts_available"))
           ELSE \E pool \in Perms(filtered) :
                   Set(r, [p EXCEPT !.pc = "guard", !.pool = pool, !.idx = 1])
    /\ UNCHANGED <<file, date, delivered, firstTarget, budget, platform, overlap, api, acq>>

ContinueIntoRecord(p) ==
    IF p.idx < max_post_attempts(p.pool)
    THEN [p EXCEPT !.pc = "guard", !.idx = @ + 1]
    ELSE [p EXCEPT !.pc = "record"]
\* the for loop of line 388 moving on to its next target, or falling out of the
\* loop with success still None (line 436)
Continue(p) ==
    IF p.idx < max_post_attempts(p.pool)
    THEN [p EXCEPT !.pc = "guard", !.idx = @ + 1]
    ELSE [p EXCEPT !.pc = "failed"]

Attempt(target, code) ==
    [subreddit |-> target.subreddit, post_id |-> target.id, code |-> code]

\* line 243, the read of the target's replies: answered 200 with a reply of the
\* account among them, answered 200 without one, answered with another status,
\* or an exception of the request or of the decoding
GuardReads == {"shows", "clean", "status_500", "raise"}
already_commented_unless_clean(read) == read # "clean"
\* lines 240-252: TRUE only when the read succeeds and shows a reply of the account
\* (the account may also have replied by other means than this program)
already_commented_on_post(read) == read = "shows"

\* lines 392-400
LiveDedup(r) ==
    /\ proc[r].pc = "guard"
    /\ LET target == proc[r].pool[proc[r].idx]
       IN  \E read \in GuardReads :
             LET p == [proc[r] EXCEPT !.calls = @ \cup {"read", "guard"},
                                      !.guard_read = read]
             IN
             IF already_commented_on_post(read)
             THEN Set(r, Continue([p EXCEPT !.attempts =
                                      Append(@, Attempt(target, "skip_already_commented"))]))
             ELSE Set(r, [p EXCEPT !.pc = "compose"])
    /\ UNCHANGED <<file, date, delivered, firstTarget, budget, platform, overlap, api, acq>>

SkipsDeliveryNever(dry) == FALSE
\* line 404: in dry-run mode the delivery call is replaced by a no-op
SkipsDelivery(dry) == dry

\* lines 402-427: compose, then the dry-run no-op or the submit call
ComposeAndSubmit(r) ==
    /\ proc[r].pc = "compose"
    /\ LET target == proc[r].pool[proc[r].idx]
           p == [proc[r] EXCEPT !.calls = @ \cup {"compose"}, !.guard_read = ""]
       IN  IF SkipsDelivery(p.dry_run)
           THEN /\ Set(r, [p EXCEPT !.pc = "record",
                                    !.attempts = Append(@, Attempt(target, "dry_run")),
                                    !.success = [set |-> TRUE, target |-> target,
                                                 verified |-> "dry_run"]])
                /\ UNCHANGED delivered
           ELSE \/ /\ Set(r, Crash([p EXCEPT !.calls = @ \cup {"submit"}]))
                   /\ UNCHANGED delivered
                \/ \E code \in StatusCodes :
                     LET q == [p EXCEPT !.calls = @ \cup {"submit"},
                                        !.attempts = Append(@, Attempt(target, code))]
                     IN  IF code # HTTP_OK
                         THEN /\ Set(r, Continue([q EXCEPT !.calls = @ \cup {"sleep"}]))
                              /\ UNCHANGED delivered
                         ELSE /\ Set(r, [q EXCEPT !.pc = "verify"])
                              /\ delivered' = [delivered EXCEPT ![target.id] = @ + 1]
    /\ UNCHANGED <<file, date, firstTarget, budget, platform, overlap, api, acq>>

verify_comment_deaf(n, out) ==
    IF out = "raise" THEN "raise" ELSE IF n < VerifyPolls THEN "again" ELSE "false"
\* lines 255-268, the n-th poll: the read may raise past verify_comment(); a reply
\* holding the snippet returns True; a non-200 answer, an unparseable body or a
\* listing without the snippet polls again, and the fourth such poll returns False
verify_comment(n, out) ==
    IF out = "raise" THEN "raise"
    ELSE IF out = "match" THEN "true"
    ELSE IF n < VerifyPolls THEN "again"
    ELSE "false"

\* lines 429-434 and 255-268, one poll per step; "matched" in calls notes that a
\* poll showed the snippet
VerifyPoll(r) ==
    /\ proc[r].pc = "verify"
    /\ \E out \in {"match", "miss", "status_500", "raise"} :
         LET target == proc[r].pool[proc[r].idx]
             p == [proc[r] EXCEPT !.polls = @ + 1,
                                  !.calls = @ \cup {"sleep", "read"}
                                              \cup (IF out = "match" THEN {"matched"} ELSE {})]
             v == verify_comment(p.polls, out)
         IN  IF v = "raise" THEN Set(r, Crash(p))
             ELSE IF v = "again" THEN Set(r, p)
             ELSE Set(r, [p EXCEPT !.pc = "record", !.polls = 0,
                                   !.success = [set |-> TRUE, target |-> target,
                                                verified |-> v]])
    /\ UNCHANGED <<file, date, delivered, firstTarget, budget, platform, overlap, api, acq>>

save_json_swallowed(p) == [p EXCEPT !.pc = "log"]
\* lines 33-35 and 469: an OSError of mkdir or write_text is caught nowhere
save_json_raises(p) == Crash(p)

ShouldRecordAlways(dry) == TRUE
\* line 456: RunState is mutated and saved only outside dry-run mode
ShouldRecord(dry) == ~dry

\* lines 454-469 and 33-35: mutate RunState, then open the state file for writing
Record(r) ==
    /\ proc[r].pc = "record"
    /\ IF ShouldRecord(proc[r].dry_run)
       THEN LET doc == Recorded(proc[r].state, proc[r].today, proc[r].success.target,
                                proc[r].success.verified, proc[r].attempts)
                p == [proc[r] EXCEPT !.state = doc, !.calls = @ \cup {"state_write"}]
            IN  \/ /\ Set(r, [p EXCEPT !.pc = "saving"])
                   /\ file' = TruncatedFile
                \/ /\ Set(r, save_json_raises(p))
                   /\ UNCHANGED file
       ELSE /\ Set(r, [proc[r] EXCEPT !.pc = "log"])
            /\ UNCHANGED file
    /\ UNCHANGED <<date, delivered, firstTarget, budget, platform, overlap, api, acq>>

\* line 35: the bytes of the whole document reach the file, or the write raises
FinishSave(r) ==
    /\ proc[r].pc = "saving"
    /\ \/ /\ file' = ObjectFile(proc[r].state)
          /\ Set(r, [proc[r] EXCEPT !.pc = "log"])
       \/ /\ UNCHANGED file
          /\ Set(r, save_json_raises(proc[r]))
    /\ UNCHANGED <<date, delivered, firstTarget, budget, platform, overlap, api, acq>>

\* line 471
Outcome(dry, verified) ==
    IF dry THEN "dry_run" ELSE IF verified = "true" THEN "ok" ELSE "posted_unverified"

\* lines 471-501: audit record, then the structured result
WriteLog(r) ==
    /\ proc[r].pc = "log"
    /\ LET p == [proc[r] EXCEPT !.calls = @ \cup {"audit"}]
       IN  \/ Set(r, Finish(p, Outcome(p.dry_run, p.success.verified), "done"))
           \/ Set(r, Crash(p))
    /\ UNCHANGED <<file, date, delivered, firstTarget, budget, platform, overlap, api, acq>>

\* lines 436-452: no target succeeded
ErrorExit(r) ==
    /\ proc[r].pc = "failed"
    /\ LET p == [proc[r] EXCEPT !.calls = @ \cup {"compose", "audit"}, !.guard_read = ""]
       IN  \/ Set(r, [Finish(p, "error", "post_failed_after_attempts")
                         EXCEPT !.result.cited = max_post_attempts(p.pool)])
           \/ Set(r, Crash(p))
    /\ UNCHANGED <<file, date, delivered, firstTarget, budget, platform, overlap, api, acq>>

\* the process is killed (SIGKILL, power loss) wherever it stands
Kill(r) ==
    /\ Running(r)
    /\ Set(r, [IdleProc EXCEPT !.pc = "killed", !.dry_run = proc[r].dry_run,
                                !.today = proc[r].today, !.file0 = proc[r].file0,
                                !.after_abort = proc[r].after_abort])
    /\ UNCHANGED <<file, date, delivered, firstTarget, budget, platform, overlap, api, acq>>

Next ==
    \/ \E r \in Procs, dry \in BOOLEAN, today \in Dates : Start(r, dry, today)
    \/ \E r \in Procs : EnsureApiUp(r)
    \/ \E r \in Procs : RetryApi(r)
    \/ \E r \in Procs : Login(r)
    \/ \E r \in Procs : Fetch(r)
    \/ \E r \in Procs : ObserveAndSelect(r)
    \/ \E r \in Procs : LiveDedup(r)
    \/ \E r \in Procs : ComposeAndSubmit(r)
    \/ \E r \in Procs : VerifyPoll(r)
    \/ \E r \in Procs : Record(r)
    \/ \E r \in Procs : FinishSave(r)
    \/ \E r \in Procs : WriteLog(r)
    \/ \E r \in Procs : ErrorExit(r)
    \/ \E r \in Procs : Kill(r)

Spec == Init /\ [][Next]_vars
SpecRun == InitRun /\ [][Next]_vars
SpecLoop == InitLoop /\ [][Next]_vars
SpecOverlap == InitOverlap /\ [][Next]_vars
SpecEmpty == InitEmpty /\ [][Next]_vars

\* the statements of main(): a started process goes on to its next statement
\* whenever the call it waits for returns or raises; nothing but a kill stops it
Step(r) ==
    \/ EnsureApiUp(r) \/ RetryApi(r) \/ Login(r) \/ Fetch(r) \/ ObserveAndSelect(r)
    \/ LiveDedup(r) \/ ComposeAndSubmit(r) \/ VerifyPoll(r) \/ Record(r)
    \/ FinishSave(r) \/ WriteLog(r) \/ ErrorExit(r)
SpecLive == InitRun /\ [][Next]_vars /\ \A r \in Procs : WF_vars(Step(r))

\* ================================================ session establishment
\* routes/reddit.py login() and services/reddit_client.py RedditClient.initialize()
MaxLogins == 2
MaxCap == 3
FileProxies == {"p1", "p2"}
EnvProxy == "env"
FallbackProxy == "fallback"

\* lines 27-60: the explicit override alone, else the parsed lines of the proxy
\* file in shuffled order, else the hard-coded fallback
proxy_candidates(override, lines) ==
    IF override THEN <<EnvProxy>>
    ELSE IF lines # <<>> THEN lines
    ELSE <<FallbackProxy>>

untruncated(c, n) == c
\* line 97: candidates[:max_attempts]
truncated(c, n) == SubSeq(c, 1, Min(n, Len(c)))

cron == <<file, date, delivered, firstTarget, budget, platform, overlap, acq, proc>>
Res(a, x) == [gen |-> a.logins, proxy |-> x]
\* browser.close() closes the browser and the contexts opened in it
CloseBrowser(a, x) ==
    [a EXCEPT !.open_b = @ \ {Res(a, x)}, !.open_c = @ \ {Res(a, x)}]
CloseContext(a, x) == [a EXCEPT !.open_c = @ \ {Res(a, x)}]
\* lines 171-179
close(a) ==
    [CloseBrowser(CloseContext(a, a.c_context), a.c_browser) EXCEPT !.c_page = FALSE]
\* the for loop of line 101 moving on, or falling out of the loop
NextCandidate(a) ==
    IF a.i < Len(a.cands) THEN [a EXCEPT !.i = @ + 1, !.pc = "launch"]
    ELSE [a EXCEPT !.pc = "exhausted"]
\* lines 112-121: the handler closes what the client's fields refer to
HandleRaise(a) == NextCandidate(CloseBrowser(CloseContext(a, a.c_context), a.c_browser))
Current(a) == a.cands[a.i]
Probe(x, verdict) == [proxy |-> x, verdict |-> verdict]

\* routes/reddit.py lines 29-35 and reddit_client.py lines 93-100
LoginRequest(override, lines, cap) ==
    /\ api.pc \in {"idle", "ok", "failed"}
    /\ api.logins < MaxLogins
    /\ LET old == IF api.client THEN close(api) ELSE api
           a == [old EXCEPT !.logins = @ + 1, !.client = TRUE,
                            !.c_browser = NoProxy, !.c_context = NoProxy, !.c_page = FALSE,
                            !.override = override, !.lines = lines, !.cap = cap,
                            !.cands = truncated(proxy_candidates(override, lines), cap),
                            !.i = 1, !.probed = <<>>, !.selected = NoProxy, !.error = ""]
       IN  api' = IF a.cands = <<>> THEN [a EXCEPT !.pc = "exhausted"]
                  ELSE [a EXCEPT !.pc = "launch"]
    /\ UNCHANGED cron

\* lines 63-72: chromium.launch
Launch ==
    /\ api.pc = "launch"
    /\ \/ api' = [api EXCEPT !.pc = "context", !.open_b = @ \cup {Res(api, Current(api))}]
       \/ api' = HandleRaise(api)
    /\ UNCHANGED cron

\* lines 73-79: browser.new_context, then self._browser = browser
NewContext ==
    /\ api.pc = "context"
    /\ \/ api' = [api EXCEPT !.pc = "probe", !.c_browser = Current(api),
                               !.open_c = @ \cup {Res(api, Current(api))}]
       \/ api' = HandleRaise(api)
    /\ UNCHANGED cron

\* lines 81-91 and 104-111: a failed navigation counts as blocked; new_page may
\* raise past _is_proxy_blocked
IsProxyBlocked ==
    /\ api.pc = "probe"
    /\ \E verdict \in {"blocked", "open", "raise"} :
         LET a == [api EXCEPT !.probed = Append(@, Probe(Current(api), verdict))]
         IN  api' = IF verdict = "raise" THEN HandleRaise(a)
                    ELSE IF verdict = "blocked" THEN [a EXCEPT !.pc = "reject"]
                    ELSE [a EXCEPT !.pc = "session", !.selected = Current(api)]
    /\ UNCHANGED cron

\* lines 105-109
Reject ==
    /\ api.pc = "reject"
    /\ api' = NextCandidate(CloseBrowser(CloseContext(api, Current(api)), api.c_browser))
    /\ UNCHANGED cron

\* lines 123-124 and routes/reddit.py line 35: the RuntimeError leaves login()
Exhausted ==
    /\ api.pc = "exhausted"
    /\ api' = [api EXCEPT !.pc = "failed", !.error = "no_working_proxy"]
    /\ UNCHANGED cron

\* lines 126-169: keep the context, add the cookies, open the page
OpenPage ==
    /\ api.pc = "session"
    /\ LET a == [api EXCEPT !.c_context = api.selected]
       IN  \/ api' = [a EXCEPT !.pc = "auth", !.c_page = TRUE]
           \/ api' = [a EXCEPT !.pc = "failed", !.error = "exception"]
    /\ UNCHANGED cron

\* routes/reddit.py lines 37-45
Authenticate ==
    /\ api.pc = "auth"
    /\ \/ api' = [api EXCEPT !.pc = "ok"]
       \/ api' = [close(api) EXCEPT !.pc = "failed", !.error = "401", !.client = FALSE]
       \/ api' = [api EXCEPT !.pc = "failed", !.error = "exception"]
    /\ UNCHANGED cron

InitSession ==
    /\ StartAt({ObjectFile(DefaultState)}, 1, 0, {})
NextSession ==
    \/ \E override \in BOOLEAN, lines \in InjSeqs(FileProxies, Cardinality(FileProxies)),
          cap \in 0..MaxCap : LoginRequest(override, lines, cap)
    \/ Launch
    \/ NewContext
    \/ IsProxyBlocked
    \/ Reject
    \/ Exhausted
    \/ OpenPage
    \/ Authenticate
SpecSession == InitSession /\ [][NextSession]_vars

\* ===================================================== candidate acquirer
\* fetch_candidates(), lines 144-199, as a function of the search responses
QuerySample == 3
ResponseLen == 1
\* A string field of a search result: its text without surrounding whitespace,
\* and whether whitespace surrounds it.
Str(core, pad) == [core |-> core, pad |-> pad]
strip(x) == [x EXCEPT !.pad = FALSE]
\* str.isalnum(): every character is a letter or a digit, and there is one
AlnumCores == {"a1", "b2", "c3", "d4", "e5", "f6", "g7"}
isalnum(x) == ~x.pad /\ x.core \in AlnumCores
HasQuestionMark(x) == x.core = "x?"
allowed == {Str(n, FALSE) : n \in {"Parenting", "daddit", "toddlers", "raisingkids", "Mommit"}}
\* lines 177-191, what the detail fetch of a post comes to: the request or the
\* decoding of its answer raises, the status is not 200, the answer has no
\* "created", "created" does not parse, it parses without an offset (comparing
\* it with the aware one_week_ago raises), it parses to a time within the week,
\* it parses to a time more than a week back
DetailOutcomes ==
    {"raise", "status_500", "no_created", "unparseable", "naive", "recent", "old"}
\* a search result: marker says that its url holds "/comments/", detail is the
\* outcome of its detail fetch
Raw(id, sub, marker, detail) ==
    [id |-> id, subreddit |-> sub, marker |-> marker, detail |-> detail]
RawPosts ==
    {Raw(Str("a1", FALSE), Str("Parenting", FALSE), TRUE, "recent"),
     Raw(Str("a1", FALSE), Str("daddit", FALSE), TRUE, "recent"),
     Raw(Str("a1", TRUE), Str("Parenting", FALSE), TRUE, "recent"),
     Raw(Str("b2", FALSE), Str("news", FALSE), TRUE, "recent"),
     Raw(Str("", FALSE), Str("Parenting", FALSE), TRUE, "recent"),
     Raw(Str("x?", FALSE), Str("Parenting", FALSE), TRUE, "recent"),
     Raw(Str("b2", FALSE), Str("Parenting", FALSE), FALSE, "recent"),
     Raw(Str("b2", FALSE), Str("Parenting", FALSE), TRUE, "old"),
     Raw(Str("b2", FALSE), Str("Mommit", FALSE), TRUE, "recent")}
\* a response: a status other than 200, or the posts of a 200 answer
Responses == {[ok |-> FALSE, posts |-> <<>>]}
                 \cup {[ok |-> TRUE, posts |-> ps] : ps \in InjSeqs(RawPosts, ResponseLen)}

\* lines 165-170
valid(p) ==
    LET pid == strip(p.id)
        psub == strip(p.subreddit)
    IN  /\ psub \in allowed
        /\ pid.core # "" /\ ~HasQuestionMark(pid) /\ isalnum(pid)
        /\ p.marker

already_seen_never(pid, seen) == FALSE
\* line 171
already_seen(pid, seen) == pid \in seen

older_than_week_or_unknown(detail) == detail # "recent"
\* lines 178-189: only a 200 answer whose "created" parses and compares below
\* one_week_ago reaches the continue of line 187
older_than_week(detail) == detail = "old"

cap_reached_never(out) == FALSE
\* line 194
cap_reached(out) == Len(out) >= AcquireCap

\* lines 160-196, the posts of one response; acc holds seen, out, whether the cap
\* of line 194 was reached, and the search and detail requests issued so far
RECURSIVE scan_posts(_, _)
scan_posts(posts, acc) ==
    IF posts = <<>> \/ acc.full THEN acc
    ELSE LET p == Head(posts)
             pid == strip(p.id)
         IN  IF ~valid(p) \/ already_seen(pid, acc.seen)
             THEN scan_posts(Tail(posts), acc)
             ELSE LET a == [acc EXCEPT !.seen = @ \cup {pid}, !.details = @ + 1]
                  IN  IF older_than_week(p.detail)
                      THEN scan_posts(Tail(posts), a)
                      ELSE scan_posts(Tail(posts),
                               [a EXCEPT !.out = Append(@, p),
                                         !.full = cap_reached(Append(acc.out, p))])

\* lines 154-199 before the shuffle
RECURSIVE scan_queries(_, _)
scan_queries(responses, acc) ==
    IF responses = <<>> \/ acc.full THEN acc
    ELSE LET a == [acc EXCEPT !.searches = @ + 1]
         IN  IF ~Head(responses).ok THEN scan_queries(Tail(responses), a)
             ELSE scan_queries(Tail(responses), scan_posts(Head(responses).posts, a))

\* lines 144-199
scanned(responses) ==
    scan_queries(responses, [seen |-> {}, out |-> <<>>, full |-> FALSE,
                             searches |-> 0, details |-> 0])
\* lines 144-199
fetch_candidates(responses) == Perms(scanned(responses).out)

FetchCandidates ==
    /\ acq.pc = "idle"
    /\ \E out \in fetch_candidates(acq.responses) :
         acq' = [acq EXCEPT !.pc = "returned", !.out = out,
                            !.searches = scanned(acq.responses).searches,
                            !.details = scanned(acq.responses).details]
    /\ UNCHANGED <<file, date, delivered, firstTarget, budget, platform, overlap, api, proc>>

InitAcquire ==
    /\ file = ObjectFile(DefaultState)
    /\ date = 1
    /\ delivered = [i \in Ids |-> 0]
    /\ firstTarget = [d \in Dates |-> 0]
    /\ budget = 0
    /\ platform = {}
    /\ overlap = FALSE
    /\ api = IdleApi
    /\ acq \in [pc : {"idle"}, responses : [1..QuerySample -> Responses], out : {<<>>},
                 searches : {0}, details : {0}]
    /\ proc = [r \in Procs |-> IdleProc]
NextAcquire == FetchCandidates
SpecAcquire == InitAcquire /\ [][NextAcquire]_vars

\* responses that are runs of one list of valid, recent posts with distinct
\* ids, one more than the cap: together the queries can return more than 6
Fresh7 ==
    <<"a1", "b2", "c3", "d4", "e5", "f6", "g7">>
ValidPost(c, detail) == Raw(Str(c, FALSE), Str("Parenting", FALSE), TRUE, detail)
Runs ==
    {[k \in 1..n |-> ValidPost(Fresh7[a + k - 1], "recent")] :
        a \in {1, 3, 4}, n \in {0, 3, 4}}
InitCap ==
    /\ file = ObjectFile(DefaultState)
    /\ date = 1
    /\ delivered = [i \in Ids |-> 0]
    /\ firstTarget = [d \in Dates |-> 0]
    /\ budget = 0
    /\ platform = {}
    /\ overlap = FALSE
    /\ api = IdleApi
    /\ acq \in [pc : {"idle"},
                 responses : [1..QuerySample -> {[ok |-> TRUE, posts |-> ps] : ps \in Runs}],
                 out : {<<>>}, searches : {0}, details : {0}]
    /\ proc = [r \in Procs |-> IdleProc]
SpecCap == InitCap /\ [][NextAcquire]_vars

\* each query answers one valid post of its own, the detail fetch of which
\* comes to any of the outcomes
InitRecency ==
    /\ file = ObjectFile(DefaultState)
    /\ date = 1
    /\ delivered = [i \in Ids |-> 0]
    /\ firstTarget = [d \in Dates |-> 0]
    /\ budget = 0
    /\ platform = {}
    /\ overlap = FALSE
    /\ api = IdleApi
    /\ \E d \in [1..QuerySample -> DetailOutcomes] :
          acq = [pc |-> "idle",
                 responses |-> [q \in 1..QuerySample |->
                                  [ok |-> TRUE, posts |-> <<ValidPost(Fresh7[q], d[q])>>]],
                 out |-> <<>>, searches |-> 0, details |-> 0]
    /\ proc = [r \in Procs |-> IdleProc]
SpecRecency == InitRecency /\ [][NextAcquire]_vars

\* ============================================================ properties
Started(r) == proc[r].pc # "idle"
Loaded(r) == load_json(proc[r].file0, DefaultState)
LoadedWell(r) == ~Raises(Loaded(r))
Key(x) == <<x.subreddit, x.post_id>>
Result(r, status, reason) ==
    /\ proc[r].pc = "done"
    /\ proc[r].result.status = status /\ proc[r].result.reason = reason
Posted(r) == proc[r].pc = "done" /\ proc[r].result.status \in {"ok", "posted_unverified"}

\* C1: no two PostedRecords of the persisted sessions_log share (subreddit, post_id).
C1_NoDuplicateRecords ==
    file.kind = "object" =>
        \A i, j \in 1..Len(file.doc.sessions_log) :
            i # j => Key(file.doc.sessions_log[i]) # Key(file.doc.sessions_log[j])

\* a later run has appended its record to a ledger that already held one
C1_Witness ==
    /\ file.kind = "object" /\ Len(file.doc.sessions_log) >= 2
    /\ \E r \in Procs : Posted(r) /\ Len(proc[r].file0.doc.sessions_log) >= 1
                        /\ proc[r].file0.doc.sessions_log[1].post_id # 0

\* C2: every persisted state document has done <= target for every date key.
C2_DoneWithinTarget ==
    (file.kind = "object" /\ file.doc.dailyKind = "map") =>
        \A d \in DOMAIN file.doc.daily : file.doc.daily[d].done <= file.doc.daily[d].target

\* a completed run has brought today's done up to the target
C2_Witness ==
    \E r \in Procs :
        /\ Posted(r) /\ file.kind = "object" /\ file # proc[r].file0
        /\ file.doc.daily[proc[r].today].done = file.doc.daily[proc[r].today].target

C4_DryRunKeepsFile ==
    \A r \in Procs : (Started(r) /\ proc[r].dry_run) => file = proc[r].file0

\* a dry run went through the whole pipeline
C4_Witness ==
    \E r \in Procs : Result(r, "dry_run", "done") /\ proc[r].success.set

\* C5: a dry run issues no submit and no verification poll; its first target
\* that passes the live guard is recorded as a dry_run attempt and ends the loop.
C5_DryRunNeverSubmits ==
    \A r \in Procs : (Started(r) /\ proc[r].dry_run) =>
        /\ "submit" \notin proc[r].calls
        /\ proc[r].pc # "verify" /\ proc[r].polls = 0
        /\ \A k \in 1..Len(proc[r].attempts) :
              /\ proc[r].attempts[k].code \in {"skip_already_commented", "dry_run"}
              /\ proc[r].attempts[k].code = "dry_run" =>
                    /\ k = Len(proc[r].attempts)
                    /\ proc[r].pc \in {"record", "log", "done"}
                    /\ {"search", "compose"} \subseteq proc[r].calls
                    /\ proc[r].success.verified = "dry_run"

\* a dry run skipped a target on the live guard and ended on the next one
C5_Witness ==
    \E r \in Procs :
        /\ Result(r, "dry_run", "done")
        /\ Len(proc[r].attempts) = 2
        /\ proc[r].attempts[1].code = "skip_already_commented"

\* C6 as stated: whatever the flags, a run that loads a status other than
\* active returns skipped/state_not_active and does nothing else.
C6_InactiveAlwaysSkips ==
    \A r \in Procs :
        (Started(r) /\ LoadedWell(r) /\ StateNotActive(Loaded(r).doc)) =>
            /\ Result(r, "skipped", "state_not_active")
            /\ proc[r].calls = {}
            /\ file = proc[r].file0

\* C6 as amended: a run without --dry-run that loads a status other than active
\* returns skipped/state_not_active and does nothing else.
C6_InactiveSkipsUnlessDry ==
    \A r \in Procs :
        (Started(r) /\ ~proc[r].dry_run /\ LoadedWell(r) /\ StateNotActive(Loaded(r).doc)) =>
            /\ Result(r, "skipped", "state_not_active")
            /\ proc[r].calls = {}
            /\ file = proc[r].file0

\* a run without --dry-run met a paused state document
C6_Witness ==
    \E r \in Procs :
        /\ ~proc[r].dry_run /\ proc[r].file0.kind = "object"
        /\ proc[r].file0.doc.status = "PAUSED"
        /\ Result(r, "skipped", "state_not_active")

QuotaAtLoad(r) ==
    /\ LoadedWell(r)
    /\ ~StateNotActive(Loaded(r).doc)
    /\ proc[r].today \in DOMAIN Loaded(r).doc.daily
    /\ Loaded(r).doc.daily[proc[r].today].done >= Loaded(r).doc.daily[proc[r].today].target

\* C7 as stated: every run that loads an active status and a bucket for today
\* with done >= target returns skipped/quota_reached and issues no submit.
C7_QuotaAlwaysSkips ==
    \A r \in Procs :
        (Started(r) /\ QuotaAtLoad(r)) =>
            Result(r, "skipped", "quota_reached") /\ "submit" \notin proc[r].calls

\* C7 as amended: a run without --dry-run that loads an active status and a
\* bucket for today with done >= target returns skipped/quota_reached; no run
\* that loads such a bucket issues a submit.
C7_QuotaSkipsUnlessDry ==
    \A r \in Procs :
        (Started(r) /\ QuotaAtLoad(r)) =>
            /\ "submit" \notin proc[r].calls
            /\ ~proc[r].dry_run => Result(r, "skipped", "quota_reached")

\* a run without --dry-run met a bucket for today that was already full
C7_Witness ==
    \E r \in Procs :
        ~proc[r].dry_run /\ QuotaAtLoad(r) /\ Result(r, "skipped", "quota_reached")

\* C8: the state file changes only in a run in which a submit was answered 200;
\* a run that ends skipped or in error leaves the file as it found it.
C8_FileWrittenOnlyAfterSuccess ==
    \A r \in Procs : Started(r) =>
        /\ file # proc[r].file0 => \E i \in Ids : delivered[i] >= 1
        /\ (proc[r].pc = "done" /\ proc[r].result.status \in {"skipped", "error"}) =>
              file = proc[r].file0

\* every submit failed, and the bucket drawn for today was not persisted
C8_Witness ==
    \E r \in Procs :
        /\ Result(r, "error", "post_failed_after_attempts")
        /\ Len(proc[r].attempts) = 2 /\ proc[r].attempts[2].code = HTTP_FAIL
        /\ file.kind = "object" /\ proc[r].today \notin DOMAIN file.doc.daily

\* what the state file holds is not a well-formed RunState object
Corrupt(f) ==
    \/ f.kind \in {"missing", "garbage", "null", "list"}
    \/ f.kind = "object" /\ f.doc.dailyKind = "list"

\* C9: on any corrupt state file a run (without --dry-run) applies the defaults
\* and returns skipped/state_not_active; it does not raise.
C9_CorruptionNeverCrashes ==
    \A r \in Procs :
        (Started(r) /\ ~proc[r].dry_run /\ Corrupt(proc[r].file0)) =>
            Result(r, "skipped", "state_not_active")

\* the run's bucket for today, once main() has computed it
HasBucket(r) == proc[r].pc \notin {"idle", "crashed", "killed"}
TargetOf(r) == proc[r].state.daily[proc[r].today].target

\* C10: every run that reaches the quota gate checks it against the target first
\* computed for its date.
C10_TargetDrawnOnce ==
    \A r \in Procs :
        (HasBucket(r) /\ ~proc[r].dry_run /\ ~StateNotActive(proc[r].state)) =>
            TargetOf(r) = firstTarget[proc[r].today]

\* ------------------------------------------------------------ C11 .. C20
NoSkips(r) == \A j \in 1..Len(proc[r].attempts) : proc[r].attempts[j].code \in StatusCodes
FailedSubmits(r) ==
    Cardinality({j \in 1..Len(proc[r].attempts) : proc[r].attempts[j].code = HTTP_FAIL})
DoneAtLoad(r) ==
    IF Loaded(r).doc.dailyKind = "map" /\ proc[r].today \in DOMAIN Loaded(r).doc.daily
    THEN Loaded(r).doc.daily[proc[r].today].done
    ELSE 0
Names(att, target) == att.subreddit = target.subreddit /\ att.post_id = target.id

\* C11: in a posting run without --dry-run in which no target is skipped by the
\* live guard, when the first k-1 submits fail and the k-th is answered 200
\* (1 <= k <= 3), the attempts list has exactly k entries, one per pooled target
\* in order, today's done is one more than at load, the persisted ledger is the
\* loaded one plus one record naming the k-th target, and the outcome is ok
\* exactly when the verification matched.
C11_FirstSuccessRecorded ==
    \A r \in Procs :
        (Posted(r) /\ ~proc[r].dry_run /\ NoSkips(r)) =>
            LET k == Len(proc[r].attempts)
                target == proc[r].pool[k]
            IN  /\ k \in 1..MaxPostAttempts
                /\ \A j \in 1..k :
                      /\ Names(proc[r].attempts[j], proc[r].pool[j])
                      /\ proc[r].attempts[j].code = IF j < k THEN HTTP_FAIL ELSE HTTP_OK
                /\ file.kind = "object"
                /\ file.doc.daily[proc[r].today].done = DoneAtLoad(r) + 1
                /\ file.doc.sessions_log =
                      Append(Loaded(r).doc.sessions_log,
                             [subreddit |-> target.subreddit, post_id |-> target.id,
                              status |-> proc[r].result.status])
                /\ (proc[r].result.status = "ok") = (proc[r].success.verified = "true")

\* two failed submits, then the third target accepted and verified
C11_Witness ==
    \E r \in Procs :
        /\ Result(r, "ok", "done") /\ ~proc[r].dry_run
        /\ Len(proc[r].attempts) = MaxPostAttempts
        /\ FailedSubmits(r) = MaxPostAttempts - 1
        /\ Len(file.doc.sessions_log) = Len(proc[r].file0.doc.sessions_log) + 1

PostFailed(r) == Result(r, "error", "post_failed_after_attempts")

C13_VerificationBounded ==
    /\ [](\A r \in Procs :
            /\ proc[r].pc = "verify" => proc[r].polls < VerifyPolls
            /\ (proc[r].success.set /\ ~proc[r].dry_run) =>
                  (proc[r].success.verified = "true") = ("matched" \in proc[r].calls)
            /\ (Posted(r) /\ ~proc[r].dry_run /\ "matched" \notin proc[r].calls) =>
                  /\ proc[r].result.status = "posted_unverified"
                  /\ file.kind = "object"
                  /\ file.doc.daily[proc[r].today].done = DoneAtLoad(r) + 1
                  /\ Len(file.doc.sessions_log) = Len(Loaded(r).doc.sessions_log) + 1
                  /\ Names(file.doc.sessions_log[Len(file.doc.sessions_log)],
                           proc[r].success.target))
    /\ [][\A r \in Procs :
            proc[r].pc = "verify" =>
                /\ "matched" \in proc'[r].calls => proc'[r].pc \in {"record", "killed"}
                /\ (proc'[r].pc = "record" /\ "matched" \notin proc'[r].calls) =>
                      proc[r].polls = VerifyPolls - 1
                /\ proc'[r].pc = "verify" => proc'[r].polls <= proc[r].polls + 1]_vars

\* four polls without a match, and the post was recorded all the same
C13_Witness ==
    \E r \in Procs :
        /\ Result(r, "posted_unverified", "done")
        /\ "matched" \notin proc[r].calls
        /\ file # proc[r].file0
        /\ delivered[proc[r].success.target.id] = 1

Observed(r) == proc[r].candidates[1]

\* C14: the observed post (the first candidate) is never posted to in the same
\* run: it is not in the pool, no submit and no dry_run attempt names it, and no
\* submit of the run is delivered to it.
C14_ObservedNeverPosted ==
    \A r \in Procs :
        proc[r].candidates # <<>> =>
            /\ \A j \in 1..Len(proc[r].pool) : proc[r].pool[j] # Observed(r)
            /\ \A j \in 1..Len(proc[r].attempts) :
                  proc[r].attempts[j].code \in StatusCodes \cup {"dry_run"} =>
                      ~Names(proc[r].attempts[j], Observed(r))
            /\ delivered[Observed(r).id] = 0

\* a run posted to another candidate although nothing but the observation kept
\* the observed post out of the pool
C14_Witness ==
    \E r \in Procs :
        /\ Posted(r) /\ ~proc[r].dry_run
        /\ <<Observed(r).subreddit, Observed(r).id>> \notin commented_keys(Loaded(r).doc)
        /\ proc[r].success.target # Observed(r)
        /\ delivered[proc[r].success.target.id] = 1

Selected(r) == proc[r].pc # "observe" /\ proc[r].candidates # <<>>
InLedger(r, post) ==
    \E j \in 1..Len(Loaded(r).doc.sessions_log) :
        Names(Loaded(r).doc.sessions_log[j], post)

\* C15 as stated: with exactly 2 acquired candidates the selection yields exactly
\* one target, the non-observed candidate, whatever the persisted ledger holds.
C15_TwoCandidatesOneTarget ==
    \A r \in Procs :
        (Selected(r) /\ Len(proc[r].candidates) = MinCandidates) =>
            proc[r].pool = <<proc[r].candidates[2]>>

\* C15 amended: with exactly 2 acquired candidates the selection yields the
\* non-observed candidate as its only target unless the ledger already names that
\* candidate; then it yields no target and the run ends
\* skipped/no_new_posts_available.
C15_TwoCandidatesOneTargetUnlessInLedger ==
    \A r \in Procs :
        (Selected(r) /\ Len(proc[r].candidates) = MinCandidates) =>
            IF InLedger(r, proc[r].candidates[2])
            THEN proc[r].pool = <<>> /\ Result(r, "skipped", "no_new_posts_available")
            ELSE proc[r].pool = <<proc[r].candidates[2]>>

\* two candidates, a ledger that names the observed one: the other one is posted to
C15_Witness ==
    \E r \in Procs :
        /\ Posted(r) /\ Len(proc[r].candidates) = MinCandidates
        /\ InLedger(r, Observed(r))
        /\ proc[r].success.target = proc[r].candidates[2]

SubmitIdx(r) == {j \in 1..Len(proc[r].attempts) : proc[r].attempts[j].code \in StatusCodes}
\* post is a candidate other than the observed one that the loaded ledger lacks
Eligible(r, post) ==
    /\ post \in Range(Tail(proc[r].candidates))
    /\ post # Observed(r)
    /\ ~InLedger(r, post)

\* C16: the submit calls of one run are at most 3, go to pairwise distinct
\* targets, each a candidate other than the observed post and not in the ledger,
\* and at most one of them is answered 200, which is then the last one.
C16_SubmitSequence ==
    \A r \in Procs :
        /\ Cardinality(SubmitIdx(r)) <= MaxPostAttempts
        /\ \A i, j \in SubmitIdx(r) :
              i # j => ~Names(proc[r].attempts[i], [subreddit |-> proc[r].attempts[j].subreddit,
                                                   id |-> proc[r].attempts[j].post_id])
        /\ \A j \in SubmitIdx(r) :
              /\ \E post \in Range(proc[r].pool) :
                    Eligible(r, post) /\ Names(proc[r].attempts[j], post)
              /\ proc[r].attempts[j].code = HTTP_OK =>
                    j = Len(proc[r].attempts) /\ proc[r].pc \notin {"guard", "compose", "failed"}
        \* the submit about to be made
        /\ (proc[r].pc = "compose" /\ ~proc[r].dry_run) =>
              /\ Cardinality(SubmitIdx(r)) < MaxPostAttempts
              /\ Eligible(r, proc[r].pool[proc[r].idx])
              /\ \A j \in SubmitIdx(r) : ~Names(proc[r].attempts[j], proc[r].pool[proc[r].idx])

\* five candidates, one of the four that were not observed is in the ledger: three
\* submits, the last one answered 200
C16_Witness ==
    \E r \in Procs :
        /\ proc[r].pc = "verify"
        /\ Len(proc[r].pool) = MaxPostAttempts
        /\ Cardinality(SubmitIdx(r)) = MaxPostAttempts
        /\ proc[r].attempts[MaxPostAttempts].code = HTTP_OK
        /\ \E post \in Range(Tail(proc[r].candidates)) : InLedger(r, post)

\* C17: a failure of a verification poll (error status or raised exception) is
\* ignored: no poll ends the run by an exception, so a run that got a 200 for its
\* submit goes on to persist its record.
C17_VerificationFailureIgnored ==
    [][\A r \in Procs :
         proc[r].pc = "verify" => proc'[r].pc \in {"verify", "record", "killed"}]_vars

\* C18: an exception raised by the health check, the login, the search, a reply
\* read, the submit or the composition is turned into a typed outcome: none of
\* these steps ends the run by an exception.
C18_BoundaryExceptionsTyped ==
    [][\A r \in Procs :
         proc[r].pc \in {"api", "api_wait", "login", "fetch", "observe", "guard", "compose",
                          "verify"} =>
             proc'[r].pc # "crashed"]_vars

\* C19: when the state write fails after a successful submit the error leaves
\* the run: an ok / posted_unverified result or a success audit record exists
\* only if the state write completed.
C19_SaveFailureSurfaces ==
    \A r \in Procs :
        (~proc[r].dry_run /\ "state_write" \in proc[r].calls
                          /\ ("audit" \in proc[r].calls \/ Posted(r))) =>
            /\ file.kind = "object"
            /\ Len(file.doc.sessions_log) = Len(Loaded(r).doc.sessions_log) + 1
            /\ file.doc.daily[proc[r].today].done = DoneAtLoad(r) + 1

\* the submit was answered 200, the state write failed, the run ended by the
\* exception without an audit record
C19_Witness ==
    \E r \in Procs :
        /\ proc[r].pc = "crashed" /\ proc[r].result.status = "exception"
        /\ "state_write" \in proc[r].calls /\ "audit" \notin proc[r].calls
        /\ file = proc[r].file0
        /\ \E i \in Ids : delivered[i] = 1

\* C20: at whatever point a run is killed, the state file holds the complete
\* document from before the run or the complete document with the new record.
C20_KilledRunLeavesWholeDocument ==
    \A r \in Procs :
        proc[r].pc = "killed" =>
            \/ file = proc[r].file0
            \/ /\ file.kind = "object"
               /\ Len(file.doc.sessions_log) = Len(Loaded(r).doc.sessions_log) + 1

\* ------------------------------------------------------------ C21 .. C30
RECURSIVE DeliveredTo(_)
DeliveredTo(S) ==
    IF S = {} THEN 0
    ELSE LET i == CHOOSE x \in S : TRUE IN delivered[i] + DeliveredTo(S \ {i})
PastGate(r) == HasBucket(r) /\ ~proc[r].dry_run /\ proc[r].result.status # "skipped"

\* C21: overlapping runs are not mutually excluded. The quota gate of a run looks
\* only at the document that run loaded, so every run past the gate loaded
\* done < target whatever the other run has delivered since, and the counter in
\* the file never passes the target; the interleaving in which both runs load
\* done = target - 1 and both deliver is C21_Witness.
C21_GateSeesOnlyLoadedCounter ==
    /\ \A r \in Procs : PastGate(r) => DoneAtLoad(r) < TargetOf(r)
    /\ (file.kind = "object" /\ file.doc.dailyKind = "map") =>
          \A d \in DOMAIN file.doc.daily : file.doc.daily[d].done <= file.doc.daily[d].target

\* both runs loaded done = target - 1 for the same date, both passed the gate and
\* both had their submit answered 200: one delivery more than the target allows
C21_Witness ==
    /\ \A r \in Procs :
          /\ Posted(r) /\ ~proc[r].dry_run
          /\ proc[r].today = 1
          /\ DoneAtLoad(r) = proc[r].file0.doc.daily[1].target - 1
    /\ DeliveredTo(Ids) = Cardinality(Procs)
    /\ file.doc.daily[1].done = file.doc.daily[1].target

\* C24: every run that ends with a result has written an audit record, whatever
\* its outcome.
C24_EveryResultHasAuditRecord ==
    \A r \in Procs : proc[r].pc = "done" => "audit" \in proc[r].calls

\* C25: with fewer than 2 acquired candidates the run ends at once with an error
\* outcome, before any observe or live-dedup read, composition or submit; a run
\* that goes on past the acquisition holds at least 2 candidates.
C25_TooFewCandidatesEndsRun ==
    \A r \in Procs :
        /\ (proc[r].pc \notin {"idle", "api", "api_wait", "login", "fetch", "crashed", "killed"}
              /\ proc[r].result.reason \notin {"api_down", "auth_login_500", "auth_status_false",
                                               "state_not_active", "quota_reached"}) =>
              IF Len(proc[r].candidates) < MinCandidates
              THEN /\ Result(r, "error", "not_enough_posts")
                   /\ proc[r].calls \cap {"read", "compose", "submit", "state_write"} = {}
                   /\ proc[r].attempts = <<>>
                   /\ file = proc[r].file0
              ELSE proc[r].result.reason # "not_enough_posts"

\* one candidate was acquired and the run ended with the error
C25_Witness ==
    \E r \in Procs :
        /\ Result(r, "error", "not_enough_posts")
        /\ Len(proc[r].candidates) = MinCandidates - 1
        /\ "search" \in proc[r].calls

SkipIdx(r) ==
    {j \in 1..Len(proc[r].attempts) : proc[r].attempts[j].code = "skip_already_commented"}

\* C26: for each target the live guard runs before composition and submit
\* (composition is entered only from the guard, for the guarded target); when the
\* guard finds a reply of the account it records a skip_already_commented attempt
\* for the target, composes and submits nothing for it, and the loop goes on
\* with the next target (or ends, when there is none).
C26_GuardBeforeDelivery ==
    /\ [](\A r \in Procs : \A j \in SkipIdx(r) :
            /\ Names(proc[r].attempts[j], proc[r].pool[j])
            /\ \A k \in 1..Len(proc[r].attempts) :
                  (k # j /\ proc[r].attempts[k].code # "skip_already_commented") =>
                      ~Names(proc[r].attempts[k], proc[r].pool[j])
            /\ delivered[proc[r].pool[j].id] = 0)
    /\ [][\A r \in Procs :
            /\ proc'[r].pc = "compose" =>
                  /\ proc[r].pc = "guard"
                  /\ proc'[r].idx = proc[r].idx /\ proc'[r].attempts = proc[r].attempts
            /\ (proc[r].pc = "guard" /\ proc'[r].attempts # proc[r].attempts
                                     /\ proc'[r].pc # "killed") =>
                  /\ proc'[r].attempts =
                        Append(proc[r].attempts,
                               Attempt(proc[r].pool[proc[r].idx], "skip_already_commented"))
                  /\ proc'[r].calls = proc[r].calls \cup {"read", "guard"}
                  /\ delivered' = delivered
                  /\ \/ proc'[r].pc = "guard" /\ proc'[r].idx = proc[r].idx + 1
                     \/ proc'[r].pc = "failed" /\ proc[r].idx = Len(proc[r].pool)]_vars

\* the first target was skipped by the guard, the next one was submitted to
C26_Witness ==
    \E r \in Procs :
        /\ Posted(r) /\ ~proc[r].dry_run
        /\ Len(proc[r].attempts) = 2
        /\ proc[r].attempts[1].code = "skip_already_commented"
        /\ proc[r].attempts[2].code = HTTP_OK
        /\ "compose" \in proc[r].calls

\* C27: a skip_already_commented does not use up a delivery attempt: a run gives
\* up with the error outcome only after 3 submit calls or when every target of
\* the pool has been tried.
C27_SkipConsumesNoAttempt ==
    \A r \in Procs :
        (PostFailed(r) /\ ~proc[r].dry_run) =>
            \/ FailedSubmits(r) = MaxPostAttempts
            \/ Len(proc[r].attempts) = Len(proc[r].pool)

OpenedNow(S) == {x \in S : x.gen = api.logins}

\* C22: when no candidate passes the probe (or the candidate list is empty) the
\* establishment fails with the no-working-egress error and leaves no session
\* handle: the client holds no context and no page, and the shared client handle
\* does not point at a client without a session.
C22_NoEgressLeavesNoHandle ==
    (api.pc = "failed" /\ api.error = "no_working_proxy") =>
        /\ api.c_context = NoProxy /\ ~api.c_page
        /\ ~api.client

\* C23: at every moment at most one browser and one context opened by the
\* establishment are open, and none is open when the next candidate is tried.
C23_RejectedCandidatesClosed ==
    /\ Cardinality(OpenedNow(api.open_b)) <= 1
    /\ Cardinality(OpenedNow(api.open_c)) <= 1
    /\ api.pc = "launch" => OpenedNow(api.open_b) = {} /\ OpenedNow(api.open_c) = {}

Pos(x) == CHOOSE k \in 1..Len(api.cands) : api.cands[k] = x
\* C28: the candidate list is the override alone, else the shuffled file, else
\* the fallback, cut to max-attempts; candidates are probed one at a time in list
\* order, at most max-attempts of them; the first candidate found not blocked is
\* retained and none is probed after it.
C28_SequentialProbing ==
    /\ [](/\ Len(api.cands) <= api.cap /\ Len(api.probed) <= api.cap
          /\ api.client =>
                LET src == IF api.override THEN <<EnvProxy>>
                           ELSE IF api.lines = <<>> THEN <<FallbackProxy>> ELSE api.lines
                IN  /\ Len(api.cands) = Min(api.cap, Len(src))
                    /\ \A k \in 1..Len(api.cands) : api.cands[k] = src[k]
          /\ \A k \in 1..Len(api.probed) :
                /\ api.probed[k].proxy \in Range(api.cands)
                /\ k <= Pos(api.probed[k].proxy) /\ Pos(api.probed[k].proxy) <= api.i
                /\ \A j \in 1..(k - 1) : Pos(api.probed[j].proxy) < Pos(api.probed[k].proxy)
                /\ api.probed[k].verdict = "open" =>
                      k = Len(api.probed) /\ api.selected = api.probed[k].proxy
          /\ api.selected # NoProxy =>
                /\ api.probed # <<>>
                /\ api.probed[Len(api.probed)] = Probe(api.selected, "open")
                /\ api.pc \in {"session", "auth", "ok", "failed"})
    /\ [][api'.logins = api.logins =>
             /\ api.selected # NoProxy => api'.probed = api.probed
             /\ api'.probed # api.probed =>
                   /\ api.pc = "probe"
                   /\ \E v \in {"blocked", "open", "raise"} :
                         api'.probed = Append(api.probed, Probe(Current(api), v))]_vars

\* the first candidate of the file was found blocked, the second one was retained
C28_Witness ==
    /\ api.pc = "ok" /\ ~api.override
    /\ Len(api.probed) = 2
    /\ api.probed[1].verdict = "blocked"
    /\ api.selected = api.cands[2]
    /\ api.open_b = {Res(api, api.selected)}

\* C29: every candidate the acquirer returns has a topic area of the allow-set,
\* a non-empty alphanumeric id and a permalink holding /comments/.
C29_ReturnedCandidatesValid ==
    \A k \in 1..Len(acq.out) :
        /\ acq.out[k].subreddit \in allowed
        /\ acq.out[k].id.core # "" /\ isalnum(acq.out[k].id)
        /\ acq.out[k].marker

AllPosts(responses) == UNION {Range(responses[q].posts) : q \in DOMAIN responses}
\* C30: no two candidates of the returned list have the same id, also when
\* several queries return the post or return it under different topic areas.
C30_ReturnedIdsDistinct ==
    /\ \A j, k \in 1..Len(acq.out) :
          j # k => /\ acq.out[j].id # acq.out[k].id
                   /\ acq.out[j].id.core # acq.out[k].id.core
    /\ Range(acq.out) \subseteq AllPosts(acq.responses)

\* two queries returned the same id under different topic areas, a third query
\* another post: the list holds the id once
C30_Witness ==
    /\ acq.pc = "returned" /\ Len(acq.out) = 2
    /\ \E q1, q2 \in DOMAIN acq.responses :
          /\ q1 # q2
          /\ \E p1 \in Range(acq.responses[q1].posts), p2 \in Range(acq.responses[q2].posts) :
                /\ p1.id = p2.id /\ p1.subreddit # p2.subreddit
                /\ valid(p1) /\ valid(p2)
                /\ p1.detail = "recent" /\ p2.detail = "recent"

\* the posts of the first n searched queries
PostsUpTo(n) ==
    UNION {Range(acq.responses[q].posts) : q \in {k \in 1..n : acq.responses[k].ok}}

\* C31: the acquirer returns at most 6 candidates and issues no request after
\* the sixth is accepted: with every post valid and recent each detail request
\* yields one candidate, so a full list took exactly 6 detail requests, and the
\* queries searched before the last searched one held fewer than 6 posts
C31_CapStopsRequests ==
    acq.pc = "returned" =>
        /\ Len(acq.out) <= AcquireCap
        /\ acq.details = Len(acq.out)
        /\ acq.searches <= QuerySample
        /\ Len(acq.out) = AcquireCap =>
               /\ acq.searches >= 1
               /\ Cardinality(PostsUpTo(acq.searches - 1)) < AcquireCap
               /\ Cardinality(PostsUpTo(acq.searches)) >= AcquireCap
C31_Witness ==
    /\ acq.pc = "returned"
    /\ Len(acq.out) = AcquireCap
    /\ acq.searches < QuerySample
    /\ Cardinality(PostsUpTo(QuerySample)) > AcquireCap

\* C32: the recency filter fails open: a valid post is left out only when its
\* detail fetch answered 200 with a creation time that parses and is more than
\* 7 days back; a failed fetch, a non-200 answer, a missing or an unparseable
\* creation time keep it
C32_RecencyFailsOpen ==
    acq.pc = "returned" =>
        \A q \in 1..QuerySample :
            LET p == acq.responses[q].posts[1]
            IN  /\ p \notin Range(acq.out) => p.detail = "old"
                /\ p.detail \in {"raise", "status_500", "no_created", "unparseable"}
                       => p \in Range(acq.out)
\* one post's detail fetch raised, one answered 500 and one dated the post
\* more than a week back: the first two are returned, the third is not
C32_Witness ==
    /\ acq.pc = "returned"
    /\ Len(acq.out) = 2
    /\ {acq.out[k].detail : k \in 1..2} = {"raise", "status_500"}
    /\ \E q \in 1..QuerySample : acq.responses[q].posts[1].detail = "old"

Outcomes == {"skipped", "error", "dry_run", "ok", "posted_unverified"}
\* C33: every run terminates: the start-up loop makes at most 8 passes, at most
\* 3 targets are attempted and at most 4 verification polls are made, so a
\* started run whose calls all come back reaches its end; a run that ends
\* without an exception and without being killed ends with one of the outcomes
\* skipped, error, dry_run, ok, posted_unverified.
C33_EveryRunTerminates ==
    /\ [](\A r \in Procs :
            /\ proc[r].retries <= ApiRetries
            /\ proc[r].idx <= MaxPostAttempts
            /\ Len(proc[r].attempts) <= MaxPostAttempts
            /\ proc[r].polls <= VerifyPolls
            /\ proc[r].pc = "done" => proc[r].result.status \in Outcomes)
    /\ \A r \in Procs : Running(r) ~> proc[r].pc \in Terminal
\* the start-up loop made its 8 passes without an answer and the run ended
\* with the error api_down
C33_Witness ==
    /\ Result("r1", "error", "api_down")
    /\ proc["r1"].retries = ApiRetries

WellCounted(doc) ==
    doc.dailyKind = "map" =>
        \A d \in DOMAIN doc.daily : doc.daily[d].done <= doc.daily[d].target
\* C34: also when runs overlap, every state document that is persisted has
\* done <= target for every date: the document in the file, and the document a
\* run is writing or has written
C34_PersistedDoneWithinTarget ==
    /\ file.kind = "object" => WellCounted(file.doc)
    /\ \A r \in Procs :
          (proc[r].pc \in {"saving", "log"} \/ Posted(r)) => WellCounted(proc[r].state)
\* two overlapping runs both delivered, and the persisted counter went up by
\* one only: it is below the number of deliveries
C34_Witness ==
    /\ \A r \in Procs : Posted(r) /\ proc[r].today = 1 /\ "state_write" \in proc[r].calls
    /\ DeliveredTo(Ids) = 2
    /\ file.kind = "object"
    /\ file.doc.daily[1].done = DoneAtLoad("r1") + 1
    /\ DoneAtLoad("r2") = DoneAtLoad("r1")

BothPosted == \A r \in Procs : Posted(r) /\ ~proc[r].dry_run
Logged(r) ==
    \E k \in 1..Len(file.doc.sessions_log) :
        Names(file.doc.sessions_log[k], proc[r].success.target)
\* C35: when two overlapping runs both submitted successfully and both have
\* finished, the state file holds the PostedRecord of each of them.
C35_BothRecordsKept ==
    BothPosted => (file.kind = "object" /\ \A r \in Procs : Logged(r))

\* C36: two overlapping runs never both submit successfully to the same post.
C36_NoCommonTarget ==
    BothPosted => proc["r1"].success.target # proc["r2"].success.target

RECURSIVE SumDone(_, _)
SumDone(daily, D) ==
    IF D = {} THEN 0
    ELSE LET d == CHOOSE x \in D : TRUE IN daily[d].done + SumDone(daily, D \ {d})
DoneTotal(doc) == IF doc.dailyKind = "map" THEN SumDone(doc.daily, DOMAIN doc.daily) ELSE 0
\* C37: from an empty daily map and an empty ledger, after any sequence of
\* non-overlapping runs the sum of done over the date buckets of the persisted
\* document equals the number of its PostedRecords.
C37_DoneCountsRecords ==
    file.kind = "object" => DoneTotal(file.doc) = Len(file.doc.sessions_log)
\* two runs on two dates each recorded a delivery: two buckets with done = 1,
\* two records
C37_Witness ==
    /\ file.kind = "object"
    /\ Len(file.doc.sessions_log) = 2
    /\ Cardinality(DOMAIN file.doc.daily) = 2
    /\ \A d \in DOMAIN file.doc.daily : file.doc.daily[d].done = 1
    /\ Posted("r1")

\* C38: a run without --dry-run that records a success changes the state
\* document only by adding 1 to done of the bucket of the date it computed at
\* start (created with done = 0 when absent) and by appending one record at the
\* end of sessions_log: status, the buckets of other dates, a persisted target
\* for today and the records already there, in their order, are as loaded.
C38_RecordFrame ==
    \A r \in Procs :
        (Posted(r) /\ ~proc[r].dry_run /\ file.kind = "object") =>
            LET old == Loaded(r).doc
                new == file.doc
                today == proc[r].today
                had == old.dailyKind = "map" /\ today \in DOMAIN old.daily
                oldDates == IF old.dailyKind = "map" THEN DOMAIN old.daily ELSE {}
            IN  /\ new.status = old.status
                /\ Len(new.sessions_log) = Len(old.sessions_log) + 1
                /\ SubSeq(new.sessions_log, 1, Len(old.sessions_log)) = old.sessions_log
                /\ Names(new.sessions_log[Len(new.sessions_log)], proc[r].success.target)
                /\ new.dailyKind = "map"
                /\ DOMAIN new.daily = oldDates \cup {today}
                /\ \A d \in oldDates \ {today} : new.daily[d] = old.daily[d]
                /\ new.daily[today].done = (IF had THEN old.daily[today].done ELSE 0) + 1
                /\ had => new.daily[today].target = old.daily[today].target
\* a run on the second date recorded a success in a document that held a
\* bucket for the first date and one record: both are still there
C38_Witness ==
    /\ Posted("r1") /\ ~proc["r1"].dry_run /\ proc["r1"].today = 2
    /\ file.kind = "object"
    /\ Loaded("r1").doc.dailyKind = "map" /\ 1 \in DOMAIN Loaded("r1").doc.daily
    /\ Loaded("r1").doc.sessions_log # <<>>
    /\ file.doc.daily[1] = Loaded("r1").doc.daily[1]
    /\ Len(file.doc.sessions_log) = 2

FailedReads == {"status_500", "raise"}
AllInLedger(r) ==
    /\ Len(proc[r].candidates) >= MinCandidates
    /\ \A k \in 2..Len(proc[r].candidates) : InLedger(r, proc[r].candidates[k])
\* C40: when at least 2 candidates were acquired and every candidate but the
\* observed one is in the ledger, the run ends skipped/no_new_posts_available
\* with no live-dedup read, no composition, no submit and no audit record, and
\* the state file is as the run found it.
C40_NothingNewSkips ==
    \A r \in Procs :
        (AllInLedger(r) /\ proc[r].pc \notin {"fetch", "observe"}) =>
            /\ Result(r, "skipped", "no_new_posts_available")
            /\ proc[r].calls \cap {"guard", "compose", "submit", "audit", "state_write"} = {}
            /\ proc[r].attempts = <<>>
            /\ file = proc[r].file0
            /\ \A i \in Ids : delivered[i] = 0
\* two candidates, the second of which is in the ledger
C40_Witness ==
    /\ Result("r1", "skipped", "no_new_posts_available")
    /\ Len(proc["r1"].candidates) = 2
    /\ InLedger("r1", proc["r1"].candidates[2])
    /\ ~proc["r1"].dry_run

====
